---- MODULE Spec2Model ----
\* Option<T>, Result<T, E> and the standalone match() of src/src/option.ts,
\* src/src/result.ts and src/src/match.ts, as a state machine: a caller holds
\* a heap of container instances and applies the library's operations to them.
\* Every method of the two classes is an operator named <Class>_<method> that
\* returns a completion (a normal return or a throw) together with the heap
\* after the call and the log of the callbacks it invoked.
EXTENDS Integers, Sequences, FiniteSets, TLC

\* heap:  the container instances constructed so far, by address
\* trace: the calls the caller has made, in order, each with its completion
\* limit: the number of calls the caller makes
VARIABLES heap, trace, limit

vars == <<heap, trace, limit>>

-----------------------------------------------------------------------------
\* JavaScript values. Containers are objects: a value of type "ref" is the
\* address of an instance in the heap, so that two instances with equal
\* fields are still two instances.

Undefined == [t |-> "undefined"]

Null == [t |-> "null"]

Bool(b) == [t |-> "boolean", b |-> b]

Num(n) == [t |-> "number", n |-> n]

NaN == [t |-> "nan"]

Str(s) == [t |-> "string", s |-> s]

Sym(d) == [t |-> "symbol", desc |-> d]

\* A plain object literal, {}.
Obj(id) == [t |-> "object", id |-> id]

\* An object with no prototype, Object.create(null): it has no toString.
Bare(id) == [t |-> "bare", id |-> id]

Arr(items) == [t |-> "array", items |-> items]

Ref(a) == [t |-> "ref", addr |-> a]

\* new <cls>(message), evaluated at `site`: the site stands for the identity
\* of the error object, which the value model would otherwise lose.
NewError(cls, message, site) ==
    [t |-> "error", cls |-> cls, message |-> message, site |-> site]

\* e instanceof Error
InstanceofError(v) == v.t = "error"

\* A caller's function. `body` names what it does with its argument; `v` is
\* the value a constant function returns or a throwing function throws.
Fn(body) == [t |-> "function", body |-> body, v |-> Undefined]

Returning(v) == [t |-> "function", body |-> "return", v |-> v]

Throwing(v) == [t |-> "function", body |-> "throw", v |-> v]

\* x => g(f(x))
Compose(f, g) == [t |-> "function", body |-> "compose", inner |-> f, outer |-> g]

\* value != null (loose inequality): false for null and undefined alone.
LooseNotNull(v) == v.t \notin {"null", "undefined"}

\* ToBoolean, as the conditional operator applies it.
ToBoolean(v) ==
    CASE v.t = "undefined" -> FALSE
      [] v.t = "null"      -> FALSE
      [] v.t = "boolean"   -> v.b
      [] v.t = "number"    -> v.n # 0
      [] v.t = "nan"       -> FALSE
      [] v.t = "string"    -> v.s # ""
      [] OTHER             -> TRUE

-----------------------------------------------------------------------------
\* Completions of an evaluation: a normal return or a throw.

Normal(v) == [kind |-> "return", val |-> v]

Abrupt(e) == [kind |-> "throw", val |-> e]

Digit(d) ==
    CASE d = 0 -> "0" [] d = 1 -> "1" [] d = 2 -> "2" [] d = 3 -> "3"
      [] d = 4 -> "4" [] d = 5 -> "5" [] d = 6 -> "6" [] d = 7 -> "7"
      [] d = 8 -> "8" [] d = 9 -> "9"

RECURSIVE NumberToString(_)
NumberToString(n) ==
    IF n < 10 THEN Digit(n) ELSE NumberToString(n \div 10) \o Digit(n % 10)

RECURSIVE JSToString(_, _)
RECURSIVE JoinFrom(_, _, _)

\* Array.prototype.join(","): null and undefined elements give "".
JoinFrom(h, items, i) ==
    IF i > Len(items) THEN Normal(Str(""))
    ELSE LET x    == items[i]
             head == IF x.t \in {"null", "undefined"} THEN Normal(Str(""))
                     ELSE JSToString(h, x)
         IN  IF head.kind = "throw" THEN head
             ELSE LET rest == JoinFrom(h, items, i + 1)
                  IN  IF rest.kind = "throw" THEN rest
                      ELSE Normal(Str(head.val.s
                                      \o (IF i < Len(items) THEN "," ELSE "")
                                      \o rest.val.s))

\* `Some(${this.value})`, 'None', `Ok(${this.value})`, `Err(${this.error})`
Container_toString(h, this) ==
    LET o == h[this]
        wrap(name, inner) ==
            IF inner.kind = "throw" THEN inner
            ELSE Normal(Str(name \o "(" \o inner.val.s \o ")"))
    IN  CASE o.cls = "SomeOption" -> wrap("Some", JSToString(h, o.value))
          [] o.cls = "NoneOption" -> Normal(Str("None"))
          [] o.cls = "OkResult"   -> wrap("Ok", JSToString(h, o.value))
          [] o.cls = "ErrResult"  -> wrap("Err", JSToString(h, o.error))

\* The abstract operation ToString(v), which a template literal `${v}` applies:
\* it throws a TypeError on a Symbol and on an object that has no conversion
\* to a primitive.
JSToString(h, v) ==
    CASE v.t = "undefined" -> Normal(Str("undefined"))
      [] v.t = "null"      -> Normal(Str("null"))
      [] v.t = "boolean"   -> Normal(Str(IF v.b THEN "true" ELSE "false"))
      [] v.t = "number"    -> Normal(Str(NumberToString(v.n)))
      [] v.t = "nan"       -> Normal(Str("NaN"))
      [] v.t = "string"    -> Normal(v)
      [] v.t = "symbol"    ->
            Abrupt(NewError("TypeError",
                            "Cannot convert a Symbol value to a string", "ToString"))
      [] v.t = "object"    -> Normal(Str("[object Object]"))
      [] v.t = "bare"      ->
            Abrupt(NewError("TypeError",
                            "Cannot convert object to primitive value", "ToString"))
      [] v.t = "error"     ->
            Normal(Str(IF v.message = "" THEN v.cls ELSE v.cls \o ": " \o v.message))
      [] v.t = "array"     -> JoinFrom(h, v.items, 1)
      [] v.t = "ref"       -> Container_toString(h, v.addr)

\* The function String(v): a Symbol gives its descriptive string, every other
\* value goes through ToString(v).
JSString(h, v) ==
    IF v.t = "symbol" THEN Normal(Str("Symbol(" \o v.desc \o ")"))
    ELSE JSToString(h, v)

-----------------------------------------------------------------------------
\* The completion of a call: the completion, the heap after the call and the
\* callbacks the call invoked, in order.

Return(v, h, c) == [kind |-> "return", val |-> v, heap |-> h, calls |-> c]

Throw(e, h, c) == [kind |-> "throw", val |-> e, heap |-> h, calls |-> c]

\* `r` after the callbacks of `c` were invoked before it.
After(c, r) == [r EXCEPT !.calls = c \o @]

\* new <class>(...): the instance takes the next address.
New(h, obj) == Return(Ref(Len(h) + 1), Append(h, obj), <<>>)

-----------------------------------------------------------------------------
\* The factories (option.ts, result.ts) and the four concrete classes'
\* constructors, which store the payload in a private readonly field.

\* Mutant: the Some factory gives a None for null and undefined, as
\* fromNullable does.
Some_ChecksNullish(h, value) ==
    IF value.t \in { "null", "undefined" } THEN New(h, [cls |-> "NoneOption"])
    ELSE New(h, [cls |-> "SomeOption", value |-> value])

Some(h, value) == New(h, [cls |-> "SomeOption", value |-> value])

None(h) == New(h, [cls |-> "NoneOption"])

Ok(h, value) == New(h, [cls |-> "OkResult", value |-> value])

Fail(h, error) == New(h, [cls |-> "ErrResult", error |-> error])

\* A call f(...args) of a caller's function: what it completes with, and the
\* log entry of the invocation, which keeps the arguments and the completion.
\* The body "compose" is x => outer(inner(x)).
Invoke(h, f, args) ==
    LET x == IF Len(args) > 0 THEN args[1] ELSE Undefined
        Body(hh, g, y) ==
            CASE g.body = "id"     -> Return(y, hh, <<>>)
              [] g.body = "return" -> Return(g.v, hh, <<>>)
              [] g.body = "throw"  -> Throw(g.v, hh, <<>>)
              [] g.body = "truthy" -> Return(Bool(ToBoolean(y)), hh, <<>>)
              [] g.body = "Some"   -> Some(hh, y)
              [] g.body = "None"   -> None(hh)
              [] g.body = "Ok"     -> Ok(hh, y)
              [] g.body = "Fail"   -> Fail(hh, y)
        r == IF f.body = "compose"
             THEN LET a == Body(h, f.inner, x)
                  IN  IF a.kind = "throw" THEN a ELSE Body(a.heap, f.outer, a.val)
             ELSE Body(h, f, x)
    IN  After(<<[fn |-> f, args |-> args, kind |-> r.kind, val |-> r.val]>>, r)

-----------------------------------------------------------------------------
\* Option<T>: SomeOption and NoneOption, method by method. `this` is the
\* receiver's address. Where the library itself calls a method on an Option
\* it does not know the class of, Option_<method> is the dispatch on the
\* class that the abstract declaration stands for.

SomeOption_isSome(h, this) == Return(Bool(TRUE), h, <<>>)

NoneOption_isSome(h, this) == Return(Bool(FALSE), h, <<>>)

Option_isSome(h, this) ==
    IF h[this].cls = "SomeOption" THEN SomeOption_isSome(h, this)
    ELSE NoneOption_isSome(h, this)

SomeOption_isNone(h, this) == Return(Bool(FALSE), h, <<>>)

NoneOption_isNone(h, this) == Return(Bool(TRUE), h, <<>>)

Option_isNone(h, this) ==
    IF h[this].cls = "SomeOption" THEN SomeOption_isNone(h, this)
    ELSE NoneOption_isNone(h, this)

SomeOption_unwrap(h, this) == Return(h[this].value, h, <<>>)

\* Mutant: unwrap on None gives undefined instead of throwing.
NoneOption_unwrap_ReturnsUndefined(h, this) == Return(Undefined, h, <<>>)

NoneOption_unwrap(h, this) ==
    Throw(NewError("Error", "Called unwrap on a None value", "option.ts:226"), h, <<>>)

Option_unwrap(h, this) ==
    IF h[this].cls = "SomeOption" THEN SomeOption_unwrap(h, this)
    ELSE NoneOption_unwrap(h, this)

SomeOption_expect(h, this, msg) == Return(h[this].value, h, <<>>)

\* Mutant: expect on None throws unwrap's message and drops the caller's.
NoneOption_expect_FixedMessage(h, this, msg) ==
    Throw(NewError("Error", "Called unwrap on a None value", "option.ts:230"), h, <<>>)

NoneOption_expect(h, this, msg) ==
    Throw(NewError("Error", msg.s, "option.ts:230"), h, <<>>)

SomeOption_unwrapOr(h, this, defaultValue) == Return(h[this].value, h, <<>>)

NoneOption_unwrapOr(h, this, defaultValue) == Return(defaultValue, h, <<>>)

\* Mutant: unwrapOrElse on Some evaluates the fallback before it looks at the
\* variant.
SomeOption_unwrapOrElse_Eager(h, this, f) ==
    LET r == Invoke(h, f, <<>>)
    IN  IF r.kind = "throw" THEN r ELSE Return(h[this].value, r.heap, r.calls)

SomeOption_unwrapOrElse(h, this, f) == Return(h[this].value, h, <<>>)

NoneOption_unwrapOrElse(h, this, f) == Invoke(h, f, <<>>)

\* Mutant: map on Some calls f and wraps the old payload again.
SomeOption_map_KeepsPayload(h, this, f) ==
    LET r == Invoke(h, f, <<h[this].value>>)
    IN  IF r.kind = "throw" THEN r ELSE After(r.calls, Some(r.heap, h[this].value))

SomeOption_map(h, this, f) ==
    LET r == Invoke(h, f, <<h[this].value>>)
    IN  IF r.kind = "throw" THEN r ELSE After(r.calls, Some(r.heap, r.val))

NoneOption_map(h, this, f) == None(h)

\* Mutant: flatMap on Some wraps what f returned, as map does.
SomeOption_flatMap_Rewraps(h, this, f) ==
    LET r == Invoke(h, f, <<h[this].value>>)
    IN  IF r.kind = "throw" THEN r ELSE After(r.calls, Some(r.heap, r.val))

SomeOption_flatMap(h, this, f) == Invoke(h, f, <<h[this].value>>)

NoneOption_flatMap(h, this, f) == None(h)

\* Mutant: filter on Some keeps the payloads the predicate rejects.
SomeOption_filter_Negated(h, this, predicate) ==
    LET r == Invoke(h, predicate, <<h[this].value>>)
    IN  IF r.kind = "throw" THEN r
        ELSE IF ToBoolean(r.val) THEN After(r.calls, None(r.heap))
        ELSE Return(Ref(this), r.heap, r.calls)

SomeOption_filter(h, this, predicate) ==
    LET r == Invoke(h, predicate, <<h[this].value>>)
    IN  IF r.kind = "throw" THEN r
        ELSE IF ToBoolean(r.val) THEN Return(Ref(this), r.heap, r.calls)
        ELSE After(r.calls, None(r.heap))

NoneOption_filter(h, this, predicate) == Return(Ref(this), h, <<>>)

SomeOption_and(h, this, optb) == Return(optb, h, <<>>)

\* Mutant: and on None returns the other Option, as and on Some does.
NoneOption_and_ReturnsOther(h, this, optb) == Return(optb, h, <<>>)

NoneOption_and(h, this, optb) == None(h)

SomeOption_or(h, this, optb) == Return(Ref(this), h, <<>>)

NoneOption_or(h, this, optb) == Return(optb, h, <<>>)

SomeOption_orElse(h, this, f) == Return(Ref(this), h, <<>>)

NoneOption_orElse(h, this, f) == Invoke(h, f, <<>>)

\* Mutant: xor on Some returns the receiver whatever the other Option is.
SomeOption_xor_KeepsThis(h, this, optb) == Return(Ref(this), h, <<>>)

SomeOption_xor(h, this, optb) ==
    LET c == Option_isNone(h, optb.addr)
    IN  IF c.kind = "throw" THEN c
        ELSE IF ToBoolean(c.val) THEN Return(Ref(this), h, <<>>)
        ELSE None(h)

NoneOption_xor(h, this, optb) ==
    LET c == Option_isSome(h, optb.addr)
    IN  IF c.kind = "throw" THEN c
        ELSE IF ToBoolean(c.val) THEN Return(optb, h, <<>>)
        ELSE None(h)

\* Mutant: zip unwraps the other Option without asking whether it is Some.
SomeOption_zip_Unguarded(h, this, other) ==
    LET u == Option_unwrap(h, other.addr)
    IN  IF u.kind = "throw" THEN u
        ELSE Some(h, Arr(<<h[this].value, u.val>>))

\* Mutant: zip on Some pairs the other payload first.
SomeOption_zip_Swapped(h, this, other) ==
    LET c == Option_isSome(h, other.addr)
    IN  IF ToBoolean(c.val)
        THEN Some(h, Arr(<<Option_unwrap(h, other.addr).val, h[this].value>>))
        ELSE None(h)

SomeOption_zip(h, this, other) ==
    LET c == Option_isSome(h, other.addr)
    IN  IF c.kind = "throw" THEN c
        ELSE IF ToBoolean(c.val)
             THEN LET u == Option_unwrap(h, other.addr)
                  IN  IF u.kind = "throw" THEN u
                      ELSE Some(h, Arr(<<h[this].value, u.val>>))
             ELSE None(h)

NoneOption_zip(h, this, other) == None(h)

SomeOption_inspect(h, this, f) ==
    LET r == Invoke(h, f, <<h[this].value>>)
    IN  IF r.kind = "throw" THEN r ELSE Return(Ref(this), r.heap, r.calls)

NoneOption_inspect(h, this, f) == Return(Ref(this), h, <<>>)

SomeOption_match(h, this, patterns) == Invoke(h, patterns.Some, <<h[this].value>>)

NoneOption_match(h, this, patterns) == Invoke(h, patterns.None, <<>>)

Option_match(h, this, patterns) ==
    IF h[this].cls = "SomeOption" THEN SomeOption_match(h, this, patterns)
    ELSE NoneOption_match(h, this, patterns)

SomeOption_toUndefined(h, this) == Return(h[this].value, h, <<>>)

NoneOption_toUndefined(h, this) == Return(Undefined, h, <<>>)

SomeOption_toNull(h, this) == Return(h[this].value, h, <<>>)

\* Mutant: toNull on None gives undefined.
NoneOption_toNull_Undefined(h, this) == Return(Undefined, h, <<>>)

NoneOption_toNull(h, this) == Return(Null, h, <<>>)

\* Mutant: fromNullable tests the value's truthiness.
Option_fromNullable_Truthy(h, value) ==
    IF ToBoolean(value) THEN Some(h, value) ELSE None(h)

\* static Option.fromNullable(value)
Option_fromNullable(h, value) ==
    IF LooseNotNull(value) THEN Some(h, value) ELSE None(h)

-----------------------------------------------------------------------------
\* Result<T, E>: OkResult and ErrResult, method by method, with the dispatch
\* Result_<method> where the library calls the method itself.

OkResult_isOk(h, this) == Return(Bool(TRUE), h, <<>>)

\* Mutant: isOk answers true on an Err as well.
ErrResult_isOk_True(h, this) == Return(Bool(TRUE), h, <<>>)

ErrResult_isOk(h, this) == Return(Bool(FALSE), h, <<>>)

OkResult_isErr(h, this) == Return(Bool(FALSE), h, <<>>)

ErrResult_isErr(h, this) == Return(Bool(TRUE), h, <<>>)

Result_isErr(h, this) ==
    IF h[this].cls = "OkResult" THEN OkResult_isErr(h, this)
    ELSE ErrResult_isErr(h, this)

OkResult_unwrap(h, this) == Return(h[this].value, h, <<>>)

ErrResult_unwrap(h, this) ==
    LET s == JSToString(h, h[this].error)
    IN  IF s.kind = "throw" THEN Throw(s.val, h, <<>>)
        ELSE Throw(NewError("Error", "Called unwrap on an Err value: " \o s.val.s,
                            "result.ts:277"), h, <<>>)

Result_unwrap(h, this) ==
    IF h[this].cls = "OkResult" THEN OkResult_unwrap(h, this)
    ELSE ErrResult_unwrap(h, this)

OkResult_unwrapErr(h, this) ==
    Throw(NewError("Error", "Called unwrapErr on an Ok value", "result.ts:194"), h, <<>>)

ErrResult_unwrapErr(h, this) == Return(h[this].error, h, <<>>)

Result_unwrapErr(h, this) ==
    IF h[this].cls = "OkResult" THEN OkResult_unwrapErr(h, this)
    ELSE ErrResult_unwrapErr(h, this)

OkResult_expect(h, this, msg) == Return(h[this].value, h, <<>>)

ErrResult_expect(h, this, msg) ==
    Throw(NewError("Error", msg.s, "result.ts:285"), h, <<>>)

OkResult_expectErr(h, this, msg) ==
    Throw(NewError("Error", msg.s, "result.ts:202"), h, <<>>)

ErrResult_expectErr(h, this, msg) == Return(h[this].error, h, <<>>)

OkResult_unwrapOr(h, this, defaultValue) == Return(h[this].value, h, <<>>)

ErrResult_unwrapOr(h, this, defaultValue) == Return(defaultValue, h, <<>>)

OkResult_unwrapOrElse(h, this, f) == Return(h[this].value, h, <<>>)

ErrResult_unwrapOrElse(h, this, f) == Invoke(h, f, <<h[this].error>>)

OkResult_map(h, this, f) ==
    LET r == Invoke(h, f, <<h[this].value>>)
    IN  IF r.kind = "throw" THEN r ELSE After(r.calls, Ok(r.heap, r.val))

ErrResult_map(h, this, f) == Fail(h, h[this].error)

OkResult_mapErr(h, this, f) == Ok(h, h[this].value)

\* Mutant: mapErr on Err stores f's result in the receiver and returns it.
ErrResult_mapErr_InPlace(h, this, f) ==
    LET r == Invoke(h, f, <<h[this].error>>)
    IN  IF r.kind = "throw" THEN r
        ELSE Return(Ref(this), [r.heap EXCEPT ![this].error = r.val], r.calls)

ErrResult_mapErr(h, this, f) ==
    LET r == Invoke(h, f, <<h[this].error>>)
    IN  IF r.kind = "throw" THEN r ELSE After(r.calls, Fail(r.heap, r.val))

OkResult_mapOr(h, this, defaultValue, f) == Invoke(h, f, <<h[this].value>>)

ErrResult_mapOr(h, this, defaultValue, f) == Return(defaultValue, h, <<>>)

OkResult_mapOrElse(h, this, defaultFn, f) == Invoke(h, f, <<h[this].value>>)

ErrResult_mapOrElse(h, this, defaultFn, f) == Invoke(h, defaultFn, <<h[this].error>>)

OkResult_flatMap(h, this, f) == Invoke(h, f, <<h[this].value>>)

ErrResult_flatMap(h, this, f) == Fail(h, h[this].error)

OkResult_and(h, this, res) == Return(res, h, <<>>)

\* Mutant: and on Err returns the other Result, as and on Ok does.
ErrResult_and_ReturnsOther(h, this, res) == Return(res, h, <<>>)

ErrResult_and(h, this, res) == Fail(h, h[this].error)

OkResult_or(h, this, res) == Ok(h, h[this].value)

ErrResult_or(h, this, res) == Return(res, h, <<>>)

OkResult_orElse(h, this, f) == Ok(h, h[this].value)

ErrResult_orElse(h, this, f) == Invoke(h, f, <<h[this].error>>)

OkResult_inspect(h, this, f) ==
    LET r == Invoke(h, f, <<h[this].value>>)
    IN  IF r.kind = "throw" THEN r ELSE Return(Ref(this), r.heap, r.calls)

\* Mutant: inspect on Err hands the error to f.
ErrResult_inspect_Invokes(h, this, f) ==
    LET r == Invoke(h, f, <<h[this].error>>)
    IN  IF r.kind = "throw" THEN r ELSE Return(Ref(this), r.heap, r.calls)

ErrResult_inspect(h, this, f) == Return(Ref(this), h, <<>>)

OkResult_inspectErr(h, this, f) == Return(Ref(this), h, <<>>)

ErrResult_inspectErr(h, this, f) ==
    LET r == Invoke(h, f, <<h[this].error>>)
    IN  IF r.kind = "throw" THEN r ELSE Return(Ref(this), r.heap, r.calls)

OkResult_match(h, this, patterns) == Invoke(h, patterns.Ok, <<h[this].value>>)

\* Mutant: match on Err hands the error to the Ok handler.
ErrResult_match_CallsOk(h, this, patterns) ==
    Invoke(h, patterns.Ok, <<h[this].error>>)

ErrResult_match(h, this, patterns) == Invoke(h, patterns.Err, <<h[this].error>>)

Result_match(h, this, patterns) ==
    IF h[this].cls = "OkResult" THEN OkResult_match(h, this, patterns)
    ELSE ErrResult_match(h, this, patterns)

\* static Result.fromThrowable(f): try { return Ok(f()) } catch (e) { ... }.
\* String(e) is evaluated inside the catch block, so a throw of that
\* conversion leaves fromThrowable.
Result_fromThrowable(h, f) ==
    LET r == Invoke(h, f, <<>>)
    IN  IF r.kind = "return" THEN After(r.calls, Ok(r.heap, r.val))
        ELSE IF InstanceofError(r.val) THEN After(r.calls, Fail(r.heap, r.val))
        ELSE LET s == JSString(r.heap, r.val)
             IN  IF s.kind = "throw" THEN Throw(s.val, r.heap, r.calls)
                 ELSE After(r.calls,
                            Fail(r.heap, NewError("Error", s.val.s, "result.ts:151")))

\* The log entry of a method call that combine makes on an element.
Examined(method, result) == <<[method |-> method, on |-> result.addr]>>

RECURSIVE CombineFrom_Unshift(_, _, _, _, _)

\* Mutant: combine puts each value in front of the earlier ones.
CombineFrom_Unshift(h, results, i, values, log) ==
    IF i > Len(results) THEN After(log, Ok(h, Arr(values)))
    ELSE LET result == results[i]
             log1   == log \o Examined("isErr", result)
         IN  IF ToBoolean(Result_isErr(h, result.addr).val)
             THEN After(log1 \o Examined("unwrapErr", result),
                        Fail(h, Result_unwrapErr(h, result.addr).val))
             ELSE CombineFrom_Unshift(h, results, i + 1,
                                      <<Result_unwrap(h, result.addr).val>> \o values,
                                      log1 \o Examined("unwrap", result))

RECURSIVE CombineFrom_KeepsScanning(_, _, _, _, _)

\* Mutant: combine goes on after a failure and returns the last one.
CombineFrom_KeepsScanning(h, results, i, values, log) ==
    IF i > Len(results) THEN After(log, Ok(h, Arr(values)))
    ELSE LET result == results[i]
             log1   == log \o Examined("isErr", result)
         IN  IF ToBoolean(Result_isErr(h, result.addr).val)
             THEN IF \E j \in (i + 1)..Len(results) : h[results[j].addr].cls = "ErrResult"
                  THEN CombineFrom_KeepsScanning(h, results, i + 1, values, log1)
                  ELSE After(log1 \o Examined("unwrapErr", result),
                             Fail(h, Result_unwrapErr(h, result.addr).val))
             ELSE CombineFrom_KeepsScanning(h, results, i + 1,
                                            Append(values, Result_unwrap(h, result.addr).val),
                                            log1 \o Examined("unwrap", result))

RECURSIVE CombineFrom(_, _, _, _, _)

\* The loop of Result.combine from element i on, `values` and `log` being
\* what the earlier iterations pushed and called.
CombineFrom(h, results, i, values, log) ==
    IF i > Len(results) THEN After(log, Ok(h, Arr(values)))
    ELSE LET result == results[i]
             c      == Result_isErr(h, result.addr)
             log1   == log \o Examined("isErr", result)
         IN  IF c.kind = "throw" THEN After(log1, c)
             ELSE IF ToBoolean(c.val)
                  THEN LET e    == Result_unwrapErr(h, result.addr)
                           log2 == log1 \o Examined("unwrapErr", result)
                       IN  IF e.kind = "throw" THEN After(log2, e)
                           ELSE After(log2, Fail(h, e.val))
                  ELSE LET v    == Result_unwrap(h, result.addr)
                           log2 == log1 \o Examined("unwrap", result)
                       IN  IF v.kind = "throw" THEN After(log2, v)
                           ELSE CombineFrom(h, results, i + 1, Append(values, v.val), log2)

\* static Result.combine(results)
Result_combine(h, results) == CombineFrom(h, results.items, 1, <<>>, <<>>)

-----------------------------------------------------------------------------
\* Mutant: the standalone match calls the handler of the empty variant itself
\* and hands it nothing.
match_IgnoresValue(h, value, patterns) ==
    IF h[value.addr].cls \in {"SomeOption", "NoneOption"}
    THEN Invoke(h, patterns.None, <<>>)
    ELSE Invoke(h, patterns.Err, <<>>)

\* The standalone match(value, patterns) of match.ts: value.match(patterns).
match(h, value, patterns) ==
    IF h[value.addr].cls \in {"SomeOption", "NoneOption"}
    THEN Option_match(h, value.addr, patterns)
    ELSE Result_match(h, value.addr, patterns)

-----------------------------------------------------------------------------
\* The caller's inputs.

\* Payloads: the two nullish values, the falsy values, a truthy number and
\* string, a Symbol, a plain object, an object without conversion to a
\* primitive, and an Error.
Values ==
    { Undefined, Null, Bool(FALSE), Num(0), NaN, Str(""), Num(42), Str("oops"),
      Sym("s"), Obj(1), Bare(1), NewError("Error", "boom", "caller") }

\* Payloads of the specifications that apply every operation.
FewValues == { Null, Sym("s") }

\* Fallback values handed to unwrapOr and mapOr.
Defaults == { Null, Str("d") }

Msgs == { Str("custom"), Str("") }

Thrower == Throwing(NewError("Error", "cb", "caller"))

Thunks == { Returning(Str("k")), Thrower }

Mappers == { Fn("id"), Returning(Str("k")), Thrower }

Predicates == { Fn("truthy"), Returning(Bool(TRUE)), Thrower }

Inspectors == { Returning(Undefined), Thrower }

OptionBinders == { Fn("Some"), Fn("None"), Thrower }

OptionThunks == { Fn("None"), Thrower }

ResultBinders == { Fn("Ok"), Fn("Fail"), Thrower }

OptionPatterns ==
    { [t |-> "patterns", Some |-> f, None |-> g] :
        f \in { Fn("id"), Thrower }, g \in { Returning(Str("nothing")), Thrower } }

ResultPatterns ==
    { [t |-> "patterns", Ok |-> f, Err |-> g] :
        f \in { Fn("id"), Thrower }, g \in { Fn("id"), Thrower } }

\* What a thunk handed to fromThrowable may do: return a value or throw one.
Throwables == { Returning(v) : v \in Values } \cup { Throwing(v) : v \in Values }

\* The thunks of the specifications that chain calls.
FewThrowables == { Returning(v) : v \in FewValues } \cup { Throwing(v) : v \in FewValues }

\* The elements of the arrays handed to combine.
CombineObjects ==
    { [cls |-> "OkResult", value |-> v] : v \in { Num(1), Num(2) } }
        \cup { [cls |-> "ErrResult", error |-> e] : e \in { Str("fail"), Str("x") } }

\* The sequences over S of length at most n.
SeqsUpTo(S, n) == UNION { [1..k -> S] : k \in 0..n }

OptionObjects(V) == { [cls |-> "SomeOption", value |-> v] : v \in V }
                        \cup { [cls |-> "NoneOption"] }

ResultObjects(V) == { [cls |-> "OkResult", value |-> v] : v \in V }
                        \cup { [cls |-> "ErrResult", error |-> v] : v \in V }

\* The addresses of the Option and of the Result instances of the heap.
Options == { a \in DOMAIN heap : heap[a].cls \in {"SomeOption", "NoneOption"} }

Results == { a \in DOMAIN heap : heap[a].cls \in {"OkResult", "ErrResult"} }

-----------------------------------------------------------------------------
\* One call of the caller: `r` is the completion of `op` on receiver `this`
\* (0 for a static method or a function) with arguments `args`. A call of a
\* method runs the implementation of the receiver's class.
Call(op, this, args, r) ==
    /\ Len(trace) < limit
    /\ heap' = r.heap
    /\ trace' = Append(trace, [op |-> op, this |-> this, args |-> args,
                               kind |-> r.kind, val |-> r.val, calls |-> r.calls,
                               pre |-> Len(heap)])
    /\ UNCHANGED limit

CallOption_isSome ==
    \E this \in Options :
        Call("Option.isSome", this, <<>>,
             IF heap[this].cls = "SomeOption" THEN SomeOption_isSome(heap, this)
             ELSE NoneOption_isSome(heap, this))

CallOption_isNone ==
    \E this \in Options :
        Call("Option.isNone", this, <<>>,
             IF heap[this].cls = "SomeOption" THEN SomeOption_isNone(heap, this)
             ELSE NoneOption_isNone(heap, this))

CallOption_unwrap ==
    \E this \in Options :
        Call("Option.unwrap", this, <<>>,
             IF heap[this].cls = "SomeOption" THEN SomeOption_unwrap(heap, this)
             ELSE NoneOption_unwrap(heap, this))

CallOption_expect ==
    \E this \in Options, x1 \in Msgs :
        Call("Option.expect", this, <<x1>>,
             IF heap[this].cls = "SomeOption" THEN SomeOption_expect(heap, this, x1)
             ELSE NoneOption_expect(heap, this, x1))

CallOption_unwrapOr ==
    \E this \in Options, x1 \in Defaults :
        Call("Option.unwrapOr", this, <<x1>>,
             IF heap[this].cls = "SomeOption" THEN SomeOption_unwrapOr(heap, this, x1)
             ELSE NoneOption_unwrapOr(heap, this, x1))

CallOption_unwrapOrElse ==
    \E this \in Options, x1 \in Thunks :
        Call("Option.unwrapOrElse", this, <<x1>>,
             IF heap[this].cls = "SomeOption" THEN SomeOption_unwrapOrElse(heap, this, x1)
             ELSE NoneOption_unwrapOrElse(heap, this, x1))

CallOption_map ==
    \E this \in Options, x1 \in Mappers :
        Call("Option.map", this, <<x1>>,
             IF heap[this].cls = "SomeOption" THEN SomeOption_map(heap, this, x1)
             ELSE NoneOption_map(heap, this, x1))

CallOption_flatMap ==
    \E this \in Options, x1 \in OptionBinders :
        Call("Option.flatMap", this, <<x1>>,
             IF heap[this].cls = "SomeOption" THEN SomeOption_flatMap(heap, this, x1)
             ELSE NoneOption_flatMap(heap, this, x1))

CallOption_filter ==
    \E this \in Options, x1 \in Predicates :
        Call("Option.filter", this, <<x1>>,
             IF heap[this].cls = "SomeOption" THEN SomeOption_filter(heap, this, x1)
             ELSE NoneOption_filter(heap, this, x1))

CallOption_and ==
    \E this \in Options, x1 \in { Ref(a) : a \in Options } :
        Call("Option.and", this, <<x1>>,
             IF heap[this].cls = "SomeOption" THEN SomeOption_and(heap, this, x1)
             ELSE NoneOption_and(heap, this, x1))

CallOption_or ==
    \E this \in Options, x1 \in { Ref(a) : a \in Options } :
        Call("Option.or", this, <<x1>>,
             IF heap[this].cls = "SomeOption" THEN SomeOption_or(heap, this, x1)
             ELSE NoneOption_or(heap, this, x1))

CallOption_orElse ==
    \E this \in Options, x1 \in OptionThunks :
        Call("Option.orElse", this, <<x1>>,
             IF heap[this].cls = "SomeOption" THEN SomeOption_orElse(heap, this, x1)
             ELSE NoneOption_orElse(heap, this, x1))

CallOption_xor ==
    \E this \in Options, x1 \in { Ref(a) : a \in Options } :
        Call("Option.xor", this, <<x1>>,
             IF heap[this].cls = "SomeOption" THEN SomeOption_xor(heap, this, x1)
             ELSE NoneOption_xor(heap, this, x1))

CallOption_zip ==
    \E this \in Options, x1 \in { Ref(a) : a \in Options } :
        Call("Option.zip", this, <<x1>>,
             IF heap[this].cls = "SomeOption" THEN SomeOption_zip(heap, this, x1)
             ELSE NoneOption_zip(heap, this, x1))

CallOption_inspect ==
    \E this \in Options, x1 \in Inspectors :
        Call("Option.inspect", this, <<x1>>,
             IF heap[this].cls = "SomeOption" THEN SomeOption_inspect(heap, this, x1)
             ELSE NoneOption_inspect(heap, this, x1))

CallOption_match ==
    \E this \in Options, x1 \in OptionPatterns :
        Call("Option.match", this, <<x1>>,
             IF heap[this].cls = "SomeOption" THEN SomeOption_match(heap, this, x1)
             ELSE NoneOption_match(heap, this, x1))

CallOption_toUndefined ==
    \E this \in Options :
        Call("Option.toUndefined", this, <<>>,
             IF heap[this].cls = "SomeOption" THEN SomeOption_toUndefined(heap, this)
             ELSE NoneOption_toUndefined(heap, this))

CallOption_toNull ==
    \E this \in Options :
        Call("Option.toNull", this, <<>>,
             IF heap[this].cls = "SomeOption" THEN SomeOption_toNull(heap, this)
             ELSE NoneOption_toNull(heap, this))

CallOption_fromNullable ==
    \E value \in Values :
        Call("Option.fromNullable", 0, <<value>>, Option_fromNullable(heap, value))

CallResult_isOk ==
    \E this \in Results :
        Call("Result.isOk", this, <<>>,
             IF heap[this].cls = "OkResult" THEN OkResult_isOk(heap, this)
             ELSE ErrResult_isOk(heap, this))

CallResult_isErr ==
    \E this \in Results :
        Call("Result.isErr", this, <<>>,
             IF heap[this].cls = "OkResult" THEN OkResult_isErr(heap, this)
             ELSE ErrResult_isErr(heap, this))

CallResult_unwrap ==
    \E this \in Results :
        Call("Result.unwrap", this, <<>>,
             IF heap[this].cls = "OkResult" THEN OkResult_unwrap(heap, this)
             ELSE ErrResult_unwrap(heap, this))

CallResult_unwrapErr ==
    \E this \in Results :
        Call("Result.unwrapErr", this, <<>>,
             IF heap[this].cls = "OkResult" THEN OkResult_unwrapErr(heap, this)
             ELSE ErrResult_unwrapErr(heap, this))

CallResult_expect ==
    \E this \in Results, x1 \in Msgs :
        Call("Result.expect", this, <<x1>>,
             IF heap[this].cls = "OkResult" THEN OkResult_expect(heap, this, x1)
             ELSE ErrResult_expect(heap, this, x1))

CallResult_expectErr ==
    \E this \in Results, x1 \in Msgs :
        Call("Result.expectErr", this, <<x1>>,
             IF heap[this].cls = "OkResult" THEN OkResult_expectErr(heap, this, x1)
             ELSE ErrResult_expectErr(heap, this, x1))

CallResult_unwrapOr ==
    \E this \in Results, x1 \in Defaults :
        Call("Result.unwrapOr", this, <<x1>>,
             IF heap[this].cls = "OkResult" THEN OkResult_unwrapOr(heap, this, x1)
             ELSE ErrResult_unwrapOr(heap, this, x1))

CallResult_unwrapOrElse ==
    \E this \in Results, x1 \in Mappers :
        Call("Result.unwrapOrElse", this, <<x1>>,
             IF heap[this].cls = "OkResult" THEN OkResult_unwrapOrElse(heap, this, x1)
             ELSE ErrResult_unwrapOrElse(heap, this, x1))

CallResult_map ==
    \E this \in Results, x1 \in Mappers :
        Call("Result.map", this, <<x1>>,
             IF heap[this].cls = "OkResult" THEN OkResult_map(heap, this, x1)
             ELSE ErrResult_map(heap, this, x1))

CallResult_mapErr ==
    \E this \in Results, x1 \in Mappers :
        Call("Result.mapErr", this, <<x1>>,
             IF heap[this].cls = "OkResult" THEN OkResult_mapErr(heap, this, x1)
             ELSE ErrResult_mapErr(heap, this, x1))

CallResult_mapOr ==
    \E this \in Results, x1 \in Defaults, x2 \in Mappers :
        Call("Result.mapOr", this, <<x1, x2>>,
             IF heap[this].cls = "OkResult" THEN OkResult_mapOr(heap, this, x1, x2)
             ELSE ErrResult_mapOr(heap, this, x1, x2))

CallResult_mapOrElse ==
    \E this \in Results, x1 \in Mappers, x2 \in Mappers :
        Call("Result.mapOrElse", this, <<x1, x2>>,
             IF heap[this].cls = "OkResult" THEN OkResult_mapOrElse(heap, this, x1, x2)
             ELSE ErrResult_mapOrElse(heap, this, x1, x2))

CallResult_flatMap ==
    \E this \in Results, x1 \in ResultBinders :
        Call("Result.flatMap", this, <<x1>>,
             IF heap[this].cls = "OkResult" THEN OkResult_flatMap(heap, this, x1)
             ELSE ErrResult_flatMap(heap, this, x1))

CallResult_and ==
    \E this \in Results, x1 \in { Ref(a) : a \in Results } :
        Call("Result.and", this, <<x1>>,
             IF heap[this].cls = "OkResult" THEN OkResult_and(heap, this, x1)
             ELSE ErrResult_and(heap, this, x1))

CallResult_or ==
    \E this \in Results, x1 \in { Ref(a) : a \in Results } :
        Call("Result.or", this, <<x1>>,
             IF heap[this].cls = "OkResult" THEN OkResult_or(heap, this, x1)
             ELSE ErrResult_or(heap, this, x1))

CallResult_orElse ==
    \E this \in Results, x1 \in ResultBinders :
        Call("Result.orElse", this, <<x1>>,
             IF heap[this].cls = "OkResult" THEN OkResult_orElse(heap, this, x1)
             ELSE ErrResult_orElse(heap, this, x1))

CallResult_inspect ==
    \E this \in Results, x1 \in Inspectors :
        Call("Result.inspect", this, <<x1>>,
             IF heap[this].cls = "OkResult" THEN OkResult_inspect(heap, this, x1)
             ELSE ErrResult_inspect(heap, this, x1))

CallResult_inspectErr ==
    \E this \in Results, x1 \in Inspectors :
        Call("Result.inspectErr", this, <<x1>>,
             IF heap[this].cls = "OkResult" THEN OkResult_inspectErr(heap, this, x1)
             ELSE ErrResult_inspectErr(heap, this, x1))

CallResult_match ==
    \E this \in Results, x1 \in ResultPatterns :
        Call("Result.match", this, <<x1>>,
             IF heap[this].cls = "OkResult" THEN OkResult_match(heap, this, x1)
             ELSE ErrResult_match(heap, this, x1))

CallResult_fromThrowable ==
    \E f \in Throwables :
        Call("Result.fromThrowable", 0, <<f>>, Result_fromThrowable(heap, f))

\* The factory Some(value), called by the caller.
CallSome ==
    \E value \in Values :
        Call("Some", 0, <<value>>, Some(heap, value))

\* fromThrowable where calls are chained: on the thunks of FewThrowables.
CallResult_fromThrowableFew ==
    \E f \in FewThrowables :
        Call("Result.fromThrowable", 0, <<f>>, Result_fromThrowable(heap, f))

\* combine over the Results of the heap, in address order.
RECURSIVE RefsFrom(_, _)
RefsFrom(h, a) ==
    IF a > Len(h) THEN <<>>
    ELSE (IF h[a].cls \in {"OkResult", "ErrResult"} THEN <<Ref(a)>> ELSE <<>>)
             \o RefsFrom(h, a + 1)

CallResult_combine ==
    \E n \in 0..Len(heap) :
        LET results == Arr(RefsFrom(SubSeq(heap, 1, n), 1))
        IN  Call("Result.combine", 0, <<results>>, Result_combine(heap, results))

Callmatch_Option ==
    \E value \in Options, patterns \in OptionPatterns :
        Call("match", 0, <<Ref(value), patterns>>, match(heap, Ref(value), patterns))

Callmatch_Result ==
    \E value \in Results, patterns \in ResultPatterns :
        Call("match", 0, <<Ref(value), patterns>>, match(heap, Ref(value), patterns))

-----------------------------------------------------------------------------
\* Bounds.

\* The calls a caller makes where one call is what a claim is about.
MaxCalls == 1

\* The calls a caller makes where a claim is about a call on the result of
\* another.
MaxChain == 2

\* The longest array handed to Result.combine.
MaxLen == 3

-----------------------------------------------------------------------------
\* Forced extraction: one container of either type, any payload, and the
\* six operations that may throw.

InitExtract ==
    /\ heap \in { <<o>> : o \in OptionObjects(Values) \cup ResultObjects(Values) }
    /\ trace = <<>>
    /\ limit = MaxCalls

NextExtract ==
    \/ CallOption_unwrap
    \/ CallOption_expect
    \/ CallResult_unwrap
    \/ CallResult_unwrapErr
    \/ CallResult_expect
    \/ CallResult_expectErr

SpecExtract == InitExtract /\ [][NextExtract]_vars

\* The class of the receiver of call c.
Cls(c) == heap[c.this].cls

UnwrapNoneMessage == "Called unwrap on a None value"

UnwrapErrOkMessage == "Called unwrapErr on an Ok value"

UnwrapErrPrefix == "Called unwrap on an Err value: "

C2_UnwrapMessageEmbedsPayload ==
    \A i \in DOMAIN trace :
        LET c == trace[i]
            s == JSString(heap, heap[c.this].error)
        IN  (c.op = "Result.unwrap" /\ Cls(c) = "ErrResult" /\ s.kind = "return")
                => (c.kind = "throw" /\ c.val.message = UnwrapErrPrefix \o s.val.s)

\* C3: expect(m) on None, expect(m) on Err and expectErr(m) on Ok throw a
\* fault whose message is exactly m; on the other variant they return the
\* payload unchanged, whatever m is.
C3_ExpectMessage ==
    \A i \in DOMAIN trace :
        LET c == trace[i]
        IN  /\ (\/ c.op = "Option.expect" /\ Cls(c) = "NoneOption"
                \/ c.op = "Result.expect" /\ Cls(c) = "ErrResult"
                \/ c.op = "Result.expectErr" /\ Cls(c) = "OkResult")
                => (c.kind = "throw" /\ c.val.message = c.args[1].s)
            /\ (\/ c.op = "Option.expect" /\ Cls(c) = "SomeOption"
                \/ c.op = "Result.expect" /\ Cls(c) = "OkResult")
                => (c.kind = "return" /\ c.val = heap[c.this].value)
            /\ (c.op = "Result.expectErr" /\ Cls(c) = "ErrResult")
                => (c.kind = "return" /\ c.val = heap[c.this].error)

\* expectErr(m) was called on an OkResult and threw.
C3_Witness ==
    \E i \in DOMAIN trace :
        /\ trace[i].op = "Result.expectErr"
        /\ Cls(trace[i]) = "OkResult"
        /\ trace[i].kind = "throw"

-----------------------------------------------------------------------------
\* Every operation that is not a forced extraction, on two containers of one
\* type.

InitTotal ==
    /\ \/ heap \in { <<a, b>> : a \in OptionObjects(FewValues), b \in OptionObjects(FewValues) }
       \/ heap \in { <<a, b>> : a \in ResultObjects(FewValues), b \in ResultObjects(FewValues) }
    /\ trace = <<>>
    /\ limit = MaxCalls

NextTotal ==
    \/ CallOption_isSome
    \/ CallOption_isNone
    \/ CallOption_unwrapOr
    \/ CallOption_unwrapOrElse
    \/ CallOption_map
    \/ CallOption_flatMap
    \/ CallOption_filter
    \/ CallOption_and
    \/ CallOption_or
    \/ CallOption_orElse
    \/ CallOption_xor
    \/ CallOption_zip
    \/ CallOption_inspect
    \/ CallOption_match
    \/ CallOption_toUndefined
    \/ CallOption_toNull
    \/ CallOption_fromNullable
    \/ CallResult_isOk
    \/ CallResult_isErr
    \/ CallResult_unwrapOr
    \/ CallResult_unwrapOrElse
    \/ CallResult_map
    \/ CallResult_mapErr
    \/ CallResult_mapOr
    \/ CallResult_mapOrElse
    \/ CallResult_flatMap
    \/ CallResult_and
    \/ CallResult_or
    \/ CallResult_orElse
    \/ CallResult_inspect
    \/ CallResult_inspectErr
    \/ CallResult_match
    \/ CallResult_fromThrowable
    \/ CallResult_combine
    \/ Callmatch_Option
    \/ Callmatch_Result

SpecTotal == InitTotal /\ [][NextTotal]_vars

\* The callbacks that call c invoked all returned normally.
CallbacksReturned(c) ==
    \A j \in DOMAIN c.calls :
        "fn" \in DOMAIN c.calls[j] => c.calls[j].kind = "return"

\* C4: given callbacks that return normally, every operation other than the
\* forced extractions (unwrap, expect, unwrapErr, expectErr) returns normally,
\* on both variants, for every payload and argument: a call none of whose
\* callbacks threw has returned.
C4_OthersReturnNormally ==
    \A i \in DOMAIN trace :
        CallbacksReturned(trace[i]) => trace[i].kind = "return"

\* zip was called on a SomeOption with a NoneOption and returned.
C4_Witness ==
    \E i \in DOMAIN trace :
        /\ trace[i].op = "Option.zip"
        /\ Cls(trace[i]) = "SomeOption"
        /\ heap[trace[i].args[1].addr].cls = "NoneOption"
        /\ trace[i].kind = "return"

-----------------------------------------------------------------------------
\* fromThrowable on a thunk that returns or throws any value, and the reading
\* of its result.

InitThrowable ==
    /\ heap = <<>>
    /\ trace = <<>>
    /\ limit = MaxChain

NextThrowable ==
    \/ CallResult_fromThrowable
    \/ CallResult_isOk
    \/ CallResult_isErr
    \/ CallResult_unwrap
    \/ CallResult_unwrapErr

SpecThrowable == InitThrowable /\ [][NextThrowable]_vars

\* C5 as stated: fromThrowable(fn) invokes fn exactly once; if fn returns v
\* the result is Success(v); if fn throws an Error e the result is Failure
\* with that same e; if fn throws a non-Error x the result is Failure of an
\* error wrapper whose message is String(x).
C5_FromThrowableOutcomes ==
    \A i \in DOMAIN trace :
        LET c == trace[i]
            f == c.args[1]
            s == JSString(heap, f.v)
        IN  c.op = "Result.fromThrowable" =>
                /\ Len(c.calls) = 1 /\ c.calls[1].fn = f /\ c.calls[1].args = <<>>
                /\ f.body = "return"
                    => (c.kind = "return"
                        /\ heap[c.val.addr] = [cls |-> "OkResult", value |-> f.v])
                /\ (f.body = "throw" /\ InstanceofError(f.v))
                    => (c.kind = "return"
                        /\ heap[c.val.addr] = [cls |-> "ErrResult", error |-> f.v])
                /\ (f.body = "throw" /\ ~InstanceofError(f.v))
                    => (/\ c.kind = "return"
                        /\ heap[c.val.addr].cls = "ErrResult"
                        /\ InstanceofError(heap[c.val.addr].error)
                        /\ s.kind = "return"
                        /\ heap[c.val.addr].error.message = s.val.s)

\* C6 as stated: whatever fn throws, fromThrowable returns a Result and lets
\* no fault reach its caller.
C6_FromThrowableNeverThrows ==
    \A i \in DOMAIN trace :
        trace[i].op = "Result.fromThrowable"
            => (/\ trace[i].kind = "return"
                /\ heap[trace[i].val.addr].cls \in {"OkResult", "ErrResult"})

-----------------------------------------------------------------------------
\* combine on every array of at most MaxLen Results.

InitCombine ==
    /\ heap \in SeqsUpTo(CombineObjects, MaxLen)
    /\ trace = <<>>
    /\ limit = MaxCalls

NextCombine == CallResult_combine

SpecCombine == InitCombine /\ [][NextCombine]_vars

\* The element at index k of the array a combine call was given.
Element(c, k) == heap[c.args[1].items[k].addr]

\* The indices of the Failures in the array a combine call was given.
Failures(c) == { k \in DOMAIN c.args[1].items : Element(c, k).cls = "ErrResult" }

\* C7: combine on an array of Successes returns a Success whose payload is
\* the array of their payloads, same length and same order; on the empty
\* array it returns Success of the empty array.
C7_CombineAllOk ==
    \A i \in DOMAIN trace :
        LET c == trace[i]
        IN  (c.op = "Result.combine" /\ Failures(c) = {})
                => (/\ c.kind = "return"
                    /\ heap[c.val.addr].cls = "OkResult"
                    /\ heap[c.val.addr].value =
                           Arr([k \in DOMAIN c.args[1].items |-> Element(c, k).value]))

\* combine returned for two Successes of different payloads.
C7_Witness ==
    \E i \in DOMAIN trace :
        /\ trace[i].op = "Result.combine"
        /\ Failures(trace[i]) = {}
        /\ Len(trace[i].args[1].items) >= 2
        /\ Element(trace[i], 1).value # Element(trace[i], 2).value
        /\ trace[i].kind = "return"

\* C8: when some element is a Failure, combine returns a Failure carrying the
\* error of the Failure of lowest index k; it has called isErr and unwrap on
\* the elements before k, isErr and unwrapErr on element k, and nothing on
\* any element after k.
C8_CombineFirstErr ==
    \A i \in DOMAIN trace :
        LET c == trace[i]
        IN  (c.op = "Result.combine" /\ Failures(c) # {})
                => LET k  == CHOOSE m \in Failures(c) : \A n \in Failures(c) : m <= n
                       at == [j \in 1..k |-> c.args[1].items[j].addr]
                   IN  /\ c.kind = "return"
                       /\ heap[c.val.addr] = [cls |-> "ErrResult", error |-> Element(c, k).error]
                       /\ Len(c.calls) = 2 * k
                       /\ \A j \in 1..k :
                            /\ c.calls[2 * j - 1] = [method |-> "isErr", on |-> at[j]]
                            /\ c.calls[2 * j] =
                                 [method |-> IF j < k THEN "unwrap" ELSE "unwrapErr",
                                  on |-> at[j]]

\* combine returned for an array whose first Failure is followed by a Failure
\* with another error.
C8_Witness ==
    \E i \in DOMAIN trace :
        /\ trace[i].op = "Result.combine"
        /\ trace[i].kind = "return"
        /\ \E k, m \in Failures(trace[i]) :
             /\ k < m
             /\ \A n \in Failures(trace[i]) : k <= n
             /\ Element(trace[i], k).error # Element(trace[i], m).error

-----------------------------------------------------------------------------
\* fromNullable on any value, and the conversions back.

InitNullable ==
    /\ heap = <<>>
    /\ trace = <<>>
    /\ limit = MaxChain

NextNullable ==
    \/ CallOption_fromNullable
    \/ CallOption_toNull
    \/ CallOption_toUndefined

SpecNullable == InitNullable /\ [][NextNullable]_vars

Nullish(x) == x \in { Null, Undefined }

\* C9: fromNullable(value) returns None if and only if value is null or
\* undefined; for every other value, the falsy 0, false, '' and NaN among
\* them, it returns Some whose payload is exactly that value.
C9_FromNullable ==
    \A i \in DOMAIN trace :
        LET c == trace[i]
            x == c.args[1]
        IN  c.op = "Option.fromNullable" =>
                /\ c.kind = "return"
                /\ heap[c.val.addr].cls = "NoneOption" <=> Nullish(x)
                /\ ~Nullish(x) => heap[c.val.addr] = [cls |-> "SomeOption", value |-> x]

\* fromNullable was given the falsy value 0 and returned a Some.
C9_Witness ==
    \E i \in DOMAIN trace :
        /\ trace[i].op = "Option.fromNullable"
        /\ trace[i].args[1] = Num(0)
        /\ trace[i].kind = "return"
        /\ heap[trace[i].val.addr].cls = "SomeOption"

\* The calls of toNull or toUndefined (`op`) on the Option that the call
\* trace[i] of fromNullable returned.
ConversionsOf(i, op) ==
    { j \in DOMAIN trace :
        /\ j > i
        /\ trace[i].op = "Option.fromNullable"
        /\ trace[j].op = op
        /\ trace[j].this = trace[i].val.addr }

\* C10: fromNullable(x).toNull() is x when x is neither null nor undefined
\* and null when it is; fromNullable(x).toUndefined() is x for such an x and
\* undefined otherwise.
C10_RoundTrip ==
    \A i \in DOMAIN trace :
        LET x == trace[i].args[1]
        IN  /\ \A j \in ConversionsOf(i, "Option.toNull") :
                 /\ trace[j].kind = "return"
                 /\ trace[j].val = IF Nullish(x) THEN Null ELSE x
            /\ \A j \in ConversionsOf(i, "Option.toUndefined") :
                 /\ trace[j].kind = "return"
                 /\ trace[j].val = IF Nullish(x) THEN Undefined ELSE x

\* fromNullable(undefined).toNull() returned.
C10_Witness ==
    \E i \in DOMAIN trace :
        /\ trace[i].args[1] = Undefined
        /\ \E j \in ConversionsOf(i, "Option.toNull") : trace[j].kind = "return"

-----------------------------------------------------------------------------
\* The combinators, call by call, under SpecTotal.

\* The payload of the receiver of call c: the value of a Some or an Ok, the
\* error of an Err.
Payload(c) ==
    IF Cls(c) = "ErrResult" THEN heap[c.this].error ELSE heap[c.this].value

\* Call c invoked nothing of the caller's.
InvokedNone(c) == c.calls = <<>>

\* Call c invoked f once, with the arguments a, invoked nothing else, and
\* completed as that invocation did: it returned what f returned, or threw
\* what f threw.
InvokedOnce(c, f, a) ==
    /\ Len(c.calls) = 1
    /\ c.calls[1].fn = f
    /\ c.calls[1].args = a
    /\ c.kind = c.calls[1].kind
    /\ c.val = c.calls[1].val

\* C11: unwrapOrElse(fn) and orElse(fn) invoke fn zero times on Some / Ok,
\* where unwrapOrElse returns the payload and orElse returns a container of
\* the receiver's variant that holds the receiver's payload; on None / Err
\* they invoke fn exactly once and complete with fn's result, and on Err(e)
\* fn is called with e (on None, with no argument).
C11_LazyFallback ==
    \A i \in DOMAIN trace :
        LET c == trace[i]
        IN  c.op \in { "Option.unwrapOrElse", "Option.orElse",
                       "Result.unwrapOrElse", "Result.orElse" } =>
                CASE Cls(c) \in { "SomeOption", "OkResult" } ->
                        /\ InvokedNone(c)
                        /\ c.kind = "return"
                        /\ c.op \in { "Option.unwrapOrElse", "Result.unwrapOrElse" }
                               => c.val = Payload(c)
                        /\ c.op \in { "Option.orElse", "Result.orElse" }
                               => heap[c.val.addr] = heap[c.this]
                  [] Cls(c) = "NoneOption" -> InvokedOnce(c, c.args[1], <<>>)
                  [] Cls(c) = "ErrResult"  -> InvokedOnce(c, c.args[1], <<Payload(c)>>)

\* unwrapOrElse was called on a Some with a fallback that would have thrown,
\* and returned.
C11_Witness ==
    \E i \in DOMAIN trace :
        /\ trace[i].op = "Option.unwrapOrElse"
        /\ Cls(trace[i]) = "SomeOption"
        /\ trace[i].args[1] = Thrower
        /\ trace[i].kind = "return"

-----------------------------------------------------------------------------
\* Option.map on one Option of any payload, and map on the result.

InitFunctor ==
    /\ heap \in { <<o>> : o \in OptionObjects(Values) }
    /\ trace = <<>>
    /\ limit = MaxChain

NextFunctor == CallOption_map

SpecFunctor == InitFunctor /\ [][NextFunctor]_vars

\* o.map(f) for the Option at address `this` of heap h.
MapOf(h, this, f) ==
    IF h[this].cls = "SomeOption" THEN SomeOption_map(h, this, f)
    ELSE NoneOption_map(h, this, f)

\* The call c completed as the completion r does, up to the identity of the
\* Option returned: both threw the same value, or both returned an Option of
\* the same variant and payload.
SameOutcome(c, r) ==
    /\ c.kind = r.kind
    /\ c.kind = "throw" => c.val = r.val
    /\ c.kind = "return" => heap[c.val.addr] = r.heap[r.val.addr]

\* C12: o.map(id) has the variant and payload of o; o.map(f).map(g) has the
\* variant and payload of o.map(x => g(f(x))), and where o.map(f) throws so
\* does the composed map, with the same value; Some(v).map(f) invokes f once
\* with v and is a Some of what f returned; None.map(f) is a None and f is
\* not invoked.
C12_FunctorLaws ==
    \A i \in DOMAIN trace :
        LET c  == trace[i]
            f  == c.args[1]
            h0 == SubSeq(heap, 1, c.pre)
        IN  c.op = "Option.map" =>
                /\ Cls(c) = "NoneOption" =>
                       /\ InvokedNone(c)
                       /\ c.kind = "return"
                       /\ heap[c.val.addr].cls = "NoneOption"
                /\ Cls(c) = "SomeOption" =>
                       /\ Len(c.calls) = 1
                       /\ c.calls[1].fn = f
                       /\ c.calls[1].args = <<Payload(c)>>
                       /\ c.kind = c.calls[1].kind
                       /\ c.kind = "return" =>
                              heap[c.val.addr] =
                                  [cls |-> "SomeOption", value |-> c.calls[1].val]
                /\ f = Fn("id") =>
                       /\ c.kind = "return"
                       /\ heap[c.val.addr] = heap[c.this]
                /\ c.kind = "throw" =>
                       \A g \in Mappers : SameOutcome(c, MapOf(h0, c.this, Compose(f, g)))
                /\ \A j \in DOMAIN trace :
                       ( /\ j > i
                         /\ c.kind = "return"
                         /\ trace[j].op = "Option.map"
                         /\ trace[j].this = c.val.addr )
                       => SameOutcome(trace[j],
                                      MapOf(h0, c.this, Compose(f, trace[j].args[1])))

\* Some(42).map(x => 'k').map(id) returned.
C12_Witness ==
    \E i, j \in DOMAIN trace :
        /\ j > i
        /\ heap[trace[i].this] = [cls |-> "SomeOption", value |-> Num(42)]
        /\ trace[i].args[1] = Returning(Str("k"))
        /\ trace[i].kind = "return"
        /\ trace[j].this = trace[i].val.addr
        /\ trace[j].args[1] = Fn("id")
        /\ trace[j].kind = "return"

-----------------------------------------------------------------------------
\* C13: Some(v).flatMap(f) invokes f once with v and returns the very Option
\* f returned, None.flatMap(f) returns a None and does not invoke f;
\* Ok(v).flatMap(f) invokes f once with v and returns the very Result f
\* returned, Err(e).flatMap(f) returns an Err whose payload is e and does not
\* invoke f.
C13_FlatMapBinds ==
    \A i \in DOMAIN trace :
        LET c == trace[i]
        IN  c.op \in { "Option.flatMap", "Result.flatMap" } =>
                CASE Cls(c) \in { "SomeOption", "OkResult" } ->
                        InvokedOnce(c, c.args[1], <<Payload(c)>>)
                  [] Cls(c) = "NoneOption" ->
                        /\ InvokedNone(c)
                        /\ c.kind = "return"
                        /\ heap[c.val.addr] = [cls |-> "NoneOption"]
                  [] Cls(c) = "ErrResult" ->
                        /\ InvokedNone(c)
                        /\ c.kind = "return"
                        /\ heap[c.val.addr] = [cls |-> "ErrResult", error |-> Payload(c)]

\* Some(v).flatMap(() => None()) returned the None that the function made.
C13_Witness ==
    \E i \in DOMAIN trace :
        /\ trace[i].op = "Option.flatMap"
        /\ Cls(trace[i]) = "SomeOption"
        /\ trace[i].args[1] = Fn("None")
        /\ trace[i].kind = "return"
        /\ trace[i].val = trace[i].calls[1].val
        /\ heap[trace[i].val.addr].cls = "NoneOption"

-----------------------------------------------------------------------------
\* C14: Some(v).filter(p) invokes p once with v; where p returns true the
\* result is the receiver itself, a Some with payload v, and where p returns
\* false it is a None; None.filter(p) is a None and p is not invoked.
C14_Filter ==
    \A i \in DOMAIN trace :
        LET c == trace[i]
        IN  c.op = "Option.filter" =>
                CASE Cls(c) = "SomeOption" ->
                        /\ Len(c.calls) = 1
                        /\ c.calls[1].fn = c.args[1]
                        /\ c.calls[1].args = <<Payload(c)>>
                        /\ c.kind = c.calls[1].kind
                        /\ (c.kind = "return" /\ c.calls[1].val = Bool(TRUE)) =>
                               /\ c.val = Ref(c.this)
                               /\ heap[c.val.addr].cls = "SomeOption"
                        /\ (c.kind = "return" /\ c.calls[1].val = Bool(FALSE)) =>
                               heap[c.val.addr] = [cls |-> "NoneOption"]
                  [] Cls(c) = "NoneOption" ->
                        /\ InvokedNone(c)
                        /\ c.kind = "return"
                        /\ heap[c.val.addr] = [cls |-> "NoneOption"]

\* A Some whose payload the predicate rejected was filtered to a None.
C14_Witness ==
    \E i \in DOMAIN trace :
        /\ trace[i].op = "Option.filter"
        /\ Cls(trace[i]) = "SomeOption"
        /\ trace[i].calls[1].val = Bool(FALSE)
        /\ trace[i].kind = "return"
        /\ heap[trace[i].val.addr].cls = "NoneOption"

-----------------------------------------------------------------------------
\* Whether the Option at address a is a Some.
IsSomeAt(a) == heap[a].cls = "SomeOption"

\* C15: a.xor(b) returns a itself when a is a Some and b a None, b itself
\* when a is a None and b a Some, and a None when both are Some or both are
\* None; so it is a Some exactly when exactly one of a, b is.
C15_Xor ==
    \A i \in DOMAIN trace :
        LET c == trace[i]
            a == c.this
            b == c.args[1].addr
        IN  c.op = "Option.xor" =>
                /\ c.kind = "return"
                /\ IsSomeAt(c.val.addr) <=> (IsSomeAt(a) /= IsSomeAt(b))
                /\ (IsSomeAt(a) /\ ~IsSomeAt(b)) => c.val = Ref(a)
                /\ (~IsSomeAt(a) /\ IsSomeAt(b)) => c.val = Ref(b)

\* xor of two Somes returned a None.
C15_Witness ==
    \E i \in DOMAIN trace :
        /\ trace[i].op = "Option.xor"
        /\ IsSomeAt(trace[i].this)
        /\ IsSomeAt(trace[i].args[1].addr)
        /\ trace[i].this /= trace[i].args[1].addr
        /\ trace[i].kind = "return"
        /\ ~IsSomeAt(trace[i].val.addr)

-----------------------------------------------------------------------------
\* C16: a.zip(b) returns, for every pair of Options: a Some whose payload is
\* the array [payload of a, payload of b] when both are Some, and a None when
\* either is a None, a Some receiver with a None argument included.
C16_Zip ==
    \A i \in DOMAIN trace :
        LET c == trace[i]
            a == c.this
            b == c.args[1].addr
        IN  c.op = "Option.zip" =>
                /\ c.kind = "return"
                /\ InvokedNone(c)
                /\ heap[c.val.addr] =
                       IF IsSomeAt(a) /\ IsSomeAt(b)
                       THEN [cls |-> "SomeOption",
                             value |-> Arr(<<heap[a].value, heap[b].value>>)]
                       ELSE [cls |-> "NoneOption"]

\* Two Somes of different payloads were zipped into a Some of the pair.
C16_Witness ==
    \E i \in DOMAIN trace :
        /\ trace[i].op = "Option.zip"
        /\ IsSomeAt(trace[i].this)
        /\ IsSomeAt(trace[i].args[1].addr)
        /\ heap[trace[i].this].value /= heap[trace[i].args[1].addr].value
        /\ trace[i].kind = "return"
        /\ IsSomeAt(trace[i].val.addr)

-----------------------------------------------------------------------------
\* C17: a.and(b) returns b itself when a is a Some and a None when a is a
\* None; a.or(b) returns a itself when a is a Some and b itself when a is a
\* None; so a.and(b) is a Some iff both are, and a.or(b) is a Some iff at
\* least one is.
C17_PresenceAlgebra ==
    \A i \in DOMAIN trace :
        LET c == trace[i]
            a == c.this
            b == c.args[1].addr
        IN  /\ c.op = "Option.and" =>
                /\ c.kind = "return"
                /\ InvokedNone(c)
                /\ IsSomeAt(a) => c.val = Ref(b)
                /\ ~IsSomeAt(a) => heap[c.val.addr] = [cls |-> "NoneOption"]
                /\ IsSomeAt(c.val.addr) <=> (IsSomeAt(a) /\ IsSomeAt(b))
            /\ c.op = "Option.or" =>
                /\ c.kind = "return"
                /\ InvokedNone(c)
                /\ c.val = IF IsSomeAt(a) THEN Ref(a) ELSE Ref(b)
                /\ IsSomeAt(c.val.addr) <=> (IsSomeAt(a) \/ IsSomeAt(b))

\* None.and(Some(v)) returned a None.
C17_Witness ==
    \E i \in DOMAIN trace :
        /\ trace[i].op = "Option.and"
        /\ ~IsSomeAt(trace[i].this)
        /\ IsSomeAt(trace[i].args[1].addr)
        /\ trace[i].kind = "return"
        /\ ~IsSomeAt(trace[i].val.addr)

-----------------------------------------------------------------------------
\* C18 as stated: Ok(v).or(res) and Ok(v).orElse(fn) return the receiver
\* itself, the same instance, and do not invoke fn; Err(e).or(res) returns
\* res itself and Err(e).orElse(fn) invokes fn once with e and returns its
\* result.
C18_OrReturnsSelf ==
    \A i \in DOMAIN trace :
        LET c == trace[i]
        IN  /\ (c.op \in { "Result.or", "Result.orElse" } /\ Cls(c) = "OkResult") =>
                /\ c.kind = "return"
                /\ InvokedNone(c)
                /\ c.val = Ref(c.this)
            /\ (c.op = "Result.or" /\ Cls(c) = "ErrResult") =>
                /\ c.kind = "return"
                /\ c.val = c.args[1]
            /\ (c.op = "Result.orElse" /\ Cls(c) = "ErrResult") =>
                InvokedOnce(c, c.args[1], <<Payload(c)>>)

-----------------------------------------------------------------------------
\* The call that the step made.
Made == trace'[Len(trace')]

\* The step's call invoked its argument once with the receiver's payload and
\* nothing else, and returned unless that invocation threw.
HookRan ==
    /\ Len(Made.calls) = 1
    /\ Made.calls[1].fn = Made.args[1]
    /\ Made.calls[1].args =
           <<IF heap[Made.this].cls = "ErrResult" THEN heap[Made.this].error
             ELSE heap[Made.this].value>>
    /\ Made.kind = Made.calls[1].kind

\* C19: a call of inspect(fn) invokes fn exactly once with the payload on a
\* Some / Ok and not at all on a None / Err; a call of inspectErr(fn) invokes
\* fn exactly once with the error on an Err and not at all on an Ok; a call
\* that returns returns the receiver itself, and the receiver's variant and
\* payload after the call are those before it.
C19_InspectHooks ==
    [][ (Made.op \in { "Option.inspect", "Result.inspect", "Result.inspectErr" }) =>
            LET on == IF Made.op = "Result.inspectErr" THEN { "ErrResult" }
                      ELSE { "SomeOption", "OkResult" }
            IN  /\ heap[Made.this].cls \in on => HookRan
                /\ heap[Made.this].cls \notin on =>
                       (Made.calls = <<>> /\ Made.kind = "return")
                /\ Made.kind = "return" => Made.val = Ref(Made.this)
                /\ heap'[Made.this] = heap[Made.this] ]_vars

\* inspect on an Ok ran the hook and returned the receiver; the hook has
\* returned undefined.
C19_Witness ==
    \E i \in DOMAIN trace :
        /\ trace[i].op = "Result.inspect"
        /\ Cls(trace[i]) = "OkResult"
        /\ Len(trace[i].calls) = 1
        /\ trace[i].kind = "return"
        /\ trace[i].val = Ref(trace[i].this)

-----------------------------------------------------------------------------
\* C20: Option.match invokes the Some handler with the payload on a Some and
\* the None handler with no argument on a None; Result.match invokes the Ok
\* handler with the value on an Ok and the Err handler with the error on an
\* Err; mapOrElse(defaultFn, f) invokes f with the value on an Ok and
\* defaultFn with the error on an Err. Each invokes that one handler once,
\* invokes nothing else, and completes with that handler's result.
C20_ExactlyOneHandler ==
    \A i \in DOMAIN trace :
        LET c == trace[i]
        IN  /\ c.op = "Option.match" =>
                IF Cls(c) = "SomeOption"
                THEN InvokedOnce(c, c.args[1].Some, <<Payload(c)>>)
                ELSE InvokedOnce(c, c.args[1].None, <<>>)
            /\ c.op = "Result.match" =>
                IF Cls(c) = "OkResult"
                THEN InvokedOnce(c, c.args[1].Ok, <<Payload(c)>>)
                ELSE InvokedOnce(c, c.args[1].Err, <<Payload(c)>>)
            /\ c.op = "Result.mapOrElse" =>
                IF Cls(c) = "OkResult"
                THEN InvokedOnce(c, c.args[2], <<Payload(c)>>)
                ELSE InvokedOnce(c, c.args[1], <<Payload(c)>>)

\* match on an Err whose Ok handler would have thrown returned the Err
\* handler's result.
C20_Witness ==
    \E i \in DOMAIN trace :
        /\ trace[i].op = "Result.match"
        /\ Cls(trace[i]) = "ErrResult"
        /\ trace[i].args[1].Ok = Thrower
        /\ trace[i].args[1].Err = Fn("id")
        /\ trace[i].kind = "return"
        /\ trace[i].val = Payload(trace[i])

-----------------------------------------------------------------------------
\* c.match(patterns), the method of the class of the container at address a.
MethodMatch(h, a, patterns) ==
    CASE h[a].cls = "SomeOption" -> SomeOption_match(h, a, patterns)
      [] h[a].cls = "NoneOption" -> NoneOption_match(h, a, patterns)
      [] h[a].cls = "OkResult"   -> OkResult_match(h, a, patterns)
      [] h[a].cls = "ErrResult"  -> ErrResult_match(h, a, patterns)

\* C21: match(c, patterns) completes as c.match(patterns) does on the same
\* heap: it invokes the same handler with the same argument and nothing
\* else, returns what the method returns or throws what it throws, and leaves
\* the same heap.
C21_StandaloneMatchAgrees ==
    \A i \in DOMAIN trace :
        LET c  == trace[i]
            h0 == SubSeq(heap, 1, c.pre)
            m  == MethodMatch(h0, c.args[1].addr, c.args[2])
        IN  c.op = "match" =>
                /\ c.kind = m.kind
                /\ c.val = m.val
                /\ c.calls = m.calls
                /\ Len(c.calls) = 1
                /\ SubSeq(heap, 1, Len(m.heap)) = m.heap

\* match(Ok(v), { Ok: id, Err: thrower }) returned v.
C21_Witness ==
    \E i \in DOMAIN trace :
        /\ trace[i].op = "match"
        /\ heap[trace[i].args[1].addr].cls = "OkResult"
        /\ trace[i].args[2].Ok = Fn("id")
        /\ trace[i].args[2].Err = Thrower
        /\ trace[i].kind = "return"
        /\ trace[i].val = heap[trace[i].args[1].addr].value

-----------------------------------------------------------------------------
\* One container made by a factory, the operations that make containers, and
\* the four queries of the variant.

InitVariant ==
    /\ heap \in { <<o>> : o \in OptionObjects(FewValues) \cup ResultObjects(FewValues) }
    /\ trace = <<>>
    /\ limit = MaxChain

NextVariant ==
    \/ CallOption_isSome
    \/ CallOption_isNone
    \/ CallOption_map
    \/ CallOption_flatMap
    \/ CallOption_filter
    \/ CallOption_and
    \/ CallOption_or
    \/ CallOption_orElse
    \/ CallOption_xor
    \/ CallOption_zip
    \/ CallOption_inspect
    \/ CallOption_fromNullable
    \/ CallResult_isOk
    \/ CallResult_isErr
    \/ CallResult_map
    \/ CallResult_mapErr
    \/ CallResult_flatMap
    \/ CallResult_and
    \/ CallResult_or
    \/ CallResult_orElse
    \/ CallResult_inspect
    \/ CallResult_inspectErr
    \/ CallResult_fromThrowableFew
    \/ CallResult_combine

SpecVariant == InitVariant /\ [][NextVariant]_vars

\* What the queries of the variant answer on the container at address a:
\* isSome() / isOk(), and isNone() / isErr().
SaysFilled(a) ==
    CASE heap[a].cls = "SomeOption" -> SomeOption_isSome(heap, a).val
      [] heap[a].cls = "NoneOption" -> NoneOption_isSome(heap, a).val
      [] heap[a].cls = "OkResult"   -> OkResult_isOk(heap, a).val
      [] heap[a].cls = "ErrResult"  -> ErrResult_isOk(heap, a).val

SaysEmpty(a) ==
    CASE heap[a].cls = "SomeOption" -> SomeOption_isNone(heap, a).val
      [] heap[a].cls = "NoneOption" -> NoneOption_isNone(heap, a).val
      [] heap[a].cls = "OkResult"   -> OkResult_isErr(heap, a).val
      [] heap[a].cls = "ErrResult"  -> ErrResult_isErr(heap, a).val

Opposite(x, y) == { x, y } = { Bool(TRUE), Bool(FALSE) }

\* C22: on every container there is, whether a factory, fromNullable,
\* fromThrowable, combine or a combinator made it, isSome() and isNone()
\* (isOk() and isErr()) answer opposite booleans, and so do any two such
\* calls the caller made on one container; no container holds both a value
\* and an error.
C22_OneVariantActive ==
    /\ \A a \in DOMAIN heap :
        /\ Opposite(SaysFilled(a), SaysEmpty(a))
        /\ ~({ "value", "error" } \subseteq DOMAIN heap[a])
    /\ \A i, j \in DOMAIN trace :
        ( /\ trace[i].this = trace[j].this
          /\ \/ trace[i].op = "Option.isSome" /\ trace[j].op = "Option.isNone"
             \/ trace[i].op = "Result.isOk" /\ trace[j].op = "Result.isErr" )
        => /\ trace[i].kind = "return"
           /\ trace[j].kind = "return"
           /\ Opposite(trace[i].val, trace[j].val)
    /\ \A i \in DOMAIN trace :
        /\ trace[i].op \in { "Option.isSome", "Result.isOk" }
               => trace[i].val = SaysFilled(trace[i].this)
        /\ trace[i].op \in { "Option.isNone", "Result.isErr" }
               => trace[i].val = SaysEmpty(trace[i].this)

\* isErr() answered true on the Err that a call of fromThrowable made.
C22_Witness ==
    \E i, j \in DOMAIN trace :
        /\ i < j
        /\ trace[i].op = "Result.fromThrowable"
        /\ trace[i].kind = "return"
        /\ trace[j].op = "Result.isErr"
        /\ trace[j].this = trace[i].val.addr
        /\ trace[j].val = Bool(TRUE)

-----------------------------------------------------------------------------
\* Every operation, the forced extractions included, on two containers of
\* one type.

InitFrame == InitTotal

NextFrame == NextTotal \/ NextExtract

SpecFrame == InitFrame /\ [][NextFrame]_vars

\* C23: no call changes a container: every container there was before a
\* call, the receiver and the containers passed as arguments among them, is
\* there after it with the same variant and the same payload, whether the
\* call returned or threw; what an operation returns that differs from its
\* receiver is another instance.
C23_Immutable ==
    [][ /\ Len(heap') >= Len(heap)
        /\ \A a \in DOMAIN heap : heap'[a] = heap[a] ]_vars

\* mapErr on an Err returned an Err of another payload and the receiver
\* holds the payload it had; unwrap on a None threw.
C23_Witness ==
    \E i \in DOMAIN trace :
        /\ trace[i].op = "Result.mapErr"
        /\ Cls(trace[i]) = "ErrResult"
        /\ trace[i].kind = "return"
        /\ trace[i].val /= Ref(trace[i].this)
        /\ heap[trace[i].val.addr].error /= heap[trace[i].this].error
        /\ heap[trace[i].this].error = trace[i].calls[1].args[1]

-----------------------------------------------------------------------------
\* The factory Some on any value, and the reading of the Option it made.

InitSome ==
    /\ heap = <<>>
    /\ trace = <<>>
    /\ limit = MaxChain

NextSome ==
    \/ CallSome
    \/ CallOption_isSome
    \/ CallOption_isNone
    \/ CallOption_unwrap
    \/ CallOption_toNull
    \/ CallOption_toUndefined

SpecSome == InitSome /\ [][NextSome]_vars

\* C24: Some(v) returns a Some whose payload is v for every value v, null,
\* undefined and the falsy values included; on that Option isSome() answers
\* true and isNone() false, and unwrap(), toNull() and toUndefined() return v
\* and do not throw: so toNull() returns null on the Some of null, and
\* toUndefined() undefined on the Some of undefined.
C24_SomeOfAnyValue ==
    \A i \in DOMAIN trace :
        LET c == trace[i]
            v == c.args[1]
        IN  c.op = "Some" =>
                /\ c.kind = "return"
                /\ heap[c.val.addr] = [cls |-> "SomeOption", value |-> v]
                /\ \A j \in DOMAIN trace :
                       (j > i /\ trace[j].this = c.val.addr) =>
                           /\ trace[j].kind = "return"
                           /\ trace[j].val =
                                  CASE trace[j].op = "Option.isSome" -> Bool(TRUE)
                                    [] trace[j].op = "Option.isNone" -> Bool(FALSE)
                                    [] OTHER -> v

\* Some(null).toNull() returned null, on an Option that is a Some.
C24_Witness ==
    \E i, j \in DOMAIN trace :
        /\ i < j
        /\ trace[i].op = "Some"
        /\ trace[i].args[1] = Null
        /\ trace[j].op = "Option.toNull"
        /\ trace[j].this = trace[i].val.addr
        /\ trace[j].val = Null
        /\ IsSomeAt(trace[j].this)

-----------------------------------------------------------------------------
\* An Err and a second Result of any variant, and the combinators of the
\* success side called on them and on what they return.

InitErrChain ==
    /\ heap \in { <<[cls |-> "ErrResult", error |-> e], r>> :
                    e \in FewValues, r \in ResultObjects(FewValues) }
    /\ trace = <<>>
    /\ limit = MaxChain

NextErrChain ==
    \/ CallResult_map
    \/ CallResult_flatMap
    \/ CallResult_and
    \/ CallResult_inspect
    \/ CallResult_inspectErr
    \/ CallResult_unwrapOr

SpecErrChain == InitErrChain /\ [][NextErrChain]_vars

SuccessSide == { "Result.map", "Result.flatMap", "Result.and", "Result.inspect" }

\* The Results that the first k calls derived from the Err at address 1 by
\* map, flatMap, and, inspect and inspectErr: that Err, and what such a call
\* on a derived Result returned.
RECURSIVE Derived(_)
Derived(k) ==
    IF k = 0 THEN { 1 }
    ELSE LET c == trace[k]
             D == Derived(k - 1)
         IN  IF /\ c.this \in D
                /\ c.op \in SuccessSide \cup { "Result.inspectErr" }
                /\ c.kind = "return"
             THEN D \cup { c.val.addr }
             ELSE D

\* C25: every Result derived from Err(e) by a sequence of map, flatMap, and,
\* inspect and inspectErr is an Err whose payload is e, also where and was
\* given an Err of another payload; no call of map, flatMap, and or inspect
\* in the sequence invoked anything, and each returned; unwrapOr(d) on a
\* derived Result returns d.
C25_ErrPreserved ==
    /\ \A a \in Derived(Len(trace)) :
           heap[a] = [cls |-> "ErrResult", error |-> heap[1].error]
    /\ \A k \in DOMAIN trace :
           LET c == trace[k]
           IN  c.this \in Derived(k - 1) =>
                   /\ c.op \in SuccessSide => (InvokedNone(c) /\ c.kind = "return")
                   /\ c.op = "Result.unwrapOr" =>
                          (c.kind = "return" /\ c.val = c.args[1])

\* Err(e).and(res), with res an Err of another payload, returned an Err on
\* which unwrapOr(d) returned d.
C25_Witness ==
    \E i, j \in DOMAIN trace :
        /\ i < j
        /\ trace[i].op = "Result.and"
        /\ trace[i].this = 1
        /\ heap[trace[i].args[1].addr].cls = "ErrResult"
        /\ heap[trace[i].args[1].addr].error /= heap[1].error
        /\ trace[i].kind = "return"
        /\ trace[j].op = "Result.unwrapOr"
        /\ trace[j].this = trace[i].val.addr
        /\ trace[j].val = trace[j].args[1]

====
